---- MODULE Spec2Model ----
(***************************************************************************)
(* Model of src/src/fetch_cloudflare_stats.py: CloudflareStatsTracker      *)
(* (history load/update/prune, threshold check, report sending) and main.  *)
(*                                                                         *)
(* Python str values (resource names, "%Y-%m-%d" dates) are sequences of   *)
(* code points, compared as Python compares str.  Python float values are  *)
(* IEEE-754 doubles: a sign, the 53-bit significand as its leading bit     *)
(* followed by four 13-bit limbs, and the exponent of the leading bit.     *)
(***************************************************************************)
EXTENDS Integers, Sequences, FiniteSets, TLC

(***************************************************************************)
(* IEEE-754 double arithmetic, as used by line 289/301:                    *)
(*   change_percent = ((requests - yesterday_requests)                     *)
(*                      / yesterday_requests) * 100                        *)
(* A float is [sign, sig, exp]: sig = <<1, l1, l2, l3, l4>> stands for the *)
(* 53-bit significand 2^52 + l1*2^39 + l2*2^26 + l3*2^13 + l4, and the     *)
(* value is sign * significand * 2^(exp - 52).  The operators are exact    *)
(* for request counts below 2^17 and thresholds below 2^17.                *)
(***************************************************************************)

\* Width of one limb of the significand, in bits (4 * 13 + 1 = 53).
LimbBits == 13

Abs(n) == IF n < 0 THEN -n ELSE n

Sign(n) == IF n < 0 THEN -1 ELSE IF n = 0 THEN 0 ELSE 1

RECURSIVE Pow2(_)
Pow2(n) == IF n = 0 THEN 1 ELSE 2 * Pow2(n - 1)

Limb == Pow2(LimbBits)

\* Largest e >= 0 with den * 2^e <= num  (num >= den > 0).
RECURSIVE ExpUp(_, _)
ExpUp(num, den) == IF 2 * den <= num THEN 1 + ExpUp(num, 2 * den) ELSE 0

\* Smallest k >= 0 with num * 2^k >= den  (num > 0).
RECURSIVE ExpDown(_, _)
ExpDown(num, den) == IF num >= den THEN 0 ELSE 1 + ExpDown(2 * num, den)

\* Number of bits of n >= 1, minus one.
RECURSIVE Log2(_)
Log2(n) == IF n < 2 THEN 0 ELSE 1 + Log2(n \div 2)

FZero == [sign |-> 0, sig |-> <<0, 0, 0, 0, 0>>, exp |-> 0]

\* Round-to-nearest-even of a significand: up says the discarded part is
\* above one half, or exactly one half with an odd kept part.
RoundSig(sign, sig, exp, up) ==
    IF ~up THEN [sign |-> sign, sig |-> sig, exp |-> exp]
    ELSE LET c4 == IF sig[5] = Limb - 1 THEN 1 ELSE 0
             c3 == IF c4 = 1 /\ sig[4] = Limb - 1 THEN 1 ELSE 0
             c2 == IF c3 = 1 /\ sig[3] = Limb - 1 THEN 1 ELSE 0
             c1 == IF c2 = 1 /\ sig[2] = Limb - 1 THEN 1 ELSE 0
         IN  IF c1 = 1
             THEN [sign |-> sign, sig |-> <<1, 0, 0, 0, 0>>, exp |-> exp + 1]
             ELSE [sign |-> sign,
                   sig  |-> <<1, (sig[2] + c2) % Limb, (sig[3] + c3) % Limb,
                              (sig[4] + c4) % Limb, (sig[5] + 1) % Limb>>,
                   exp  |-> exp]

\* a / b for Python ints a, b with b # 0: the correctly rounded quotient.
FDiv(a, b) ==
    IF a = 0 THEN FZero
    ELSE LET n   == Abs(a)
             d   == Abs(b)
             up  == n >= d
             e   == IF up THEN ExpUp(n, d) ELSE -ExpDown(n, d)
             num == IF up THEN n ELSE n * Pow2(-e)
             den == IF up THEN d * Pow2(e) ELSE d
             t1  == (num - den) * Limb
             t2  == (t1 % den) * Limb
             t3  == (t2 % den) * Limb
             t4  == (t3 % den) * Limb
             rem == t4 % den
             sig == <<1, t1 \div den, t2 \div den, t3 \div den, t4 \div den>>
             rnd == \/ 2 * rem > den
                    \/ 2 * rem = den /\ sig[5] % 2 = 1
         IN  RoundSig(Sign(a) * Sign(b), sig, e, rnd)

\* f * k for a float f and a Python int k with 1 <= k < 2^12 (k converts to
\* float exactly), rounded to nearest even.
FMul(f, k) ==
    IF f.sign = 0 THEN FZero
    ELSE LET p4   == f.sig[5] * k
             p3   == f.sig[4] * k + p4 \div Limb
             p2   == f.sig[3] * k + p3 \div Limb
             p1   == f.sig[2] * k + p2 \div Limb
             p0   == f.sig[1] * k + p1 \div Limb
             s    == Log2(p0)
             lo   == Pow2(s)
             hi   == Pow2(LimbBits - s)
             sh(a, b) == (a % lo) * hi + (b % Limb) \div lo
             sig  == <<p0 \div lo, sh(p0, p1), sh(p1, p2), sh(p2, p3), sh(p3, p4)>>
             cut  == p4 % lo
             rnd  == /\ s > 0
                     /\ \/ 2 * cut > lo
                        \/ 2 * cut = lo /\ sig[5] % 2 = 1
         IN  RoundSig(f.sign, sig, f.exp + s, rnd)

\* Compare a positive float with an int n, 0 < n < 2^17: -1, 0 or 1.
PosCmp(sig, exp, n) ==
    IF exp < 0 THEN -1
    ELSE IF exp > 16 THEN 1
    ELSE LET drop == 4 * LimbBits - exp
             q    == drop \div LimbBits
             r    == Pow2(drop % LimbBits)
             \* the limbs above the q dropped ones, as one integer
             keep == IF q = 4 THEN 1
                     ELSE IF q = 3 THEN Limb + sig[2]
                     ELSE (Limb + sig[2]) * Limb + sig[3]
             ip   == keep \div r
             frac == \/ keep % r # 0
                     \/ \E i \in (6 - q)..5 : sig[i] # 0
         IN  IF ip > n THEN 1
             ELSE IF ip < n THEN -1
             ELSE IF frac THEN 1 ELSE 0

\* Python's exact comparison of a float f with an int n: -1, 0 or 1.
FCmp(f, n) ==
    IF f.sign = 0 THEN Sign(0 - n)
    ELSE IF f.sign = 1
         THEN IF n <= 0 THEN 1 ELSE PosCmp(f.sig, f.exp, n)
         ELSE IF n >= 0 THEN -1 ELSE 0 - PosCmp(f.sig, f.exp, 0 - n)

\* The percentage multiplier of line 289/301.
Hundred == 100

\* change_percent of line 289/301 (yesterday_requests # 0).
ChangePercent(requests, yesterday_requests) ==
    FMul(FDiv(requests - yesterday_requests, yesterday_requests), Hundred)

(***************************************************************************)
(* Python str: sequences of code points.  Dates are the strings made by    *)
(* strftime("%Y-%m-%d") from the day number of datetime.now() (days since  *)
(* 1970-01-01); timedelta(days = n) subtracts n from the day number.       *)
(***************************************************************************)

Min(S) == CHOOSE x \in S : \A y \in S : x <= y

\* Python's a <= b on str.
StrLE(a, b) ==
    LET n    == IF Len(a) < Len(b) THEN Len(a) ELSE Len(b)
        diff == {i \in 1..n : a[i] # b[i]}
    IN  IF diff = {} THEN Len(a) <= Len(b)
        ELSE a[Min(diff)] < b[Min(diff)]

\* Python's a >= b on str (line 268/273).
StrGE(a, b) == StrLE(b, a)

\* Year, month and day of a day number (proleptic Gregorian calendar).
CivilFromDays(day) ==
    LET z   == day + 719468
        era == z \div 146097
        doe == z % 146097
        yoe == (doe - doe \div 1460 + doe \div 36524 - doe \div 146096) \div 365
        doy == doe - (365 * yoe + yoe \div 4 - yoe \div 100)
        mp  == (5 * doy + 2) \div 153
        d   == doy - (153 * mp + 2) \div 5 + 1
        m   == IF mp < 10 THEN mp + 3 ELSE mp - 9
        y   == yoe + era * 400 + (IF m <= 2 THEN 1 ELSE 0)
    IN  <<y, m, d>>

\* Code point of a decimal digit.
Digit(n) == 48 + n

\* strftime("%Y-%m-%d") of a day number (years 1000..9999).
Strftime(day) ==
    LET c == CivilFromDays(day)
    IN  << Digit(c[1] \div 1000), Digit((c[1] \div 100) % 10),
           Digit((c[1] \div 10) % 10), Digit(c[1] % 10), 45,
           Digit(c[2] \div 10), Digit(c[2] % 10), 45,
           Digit(c[3] \div 10), Digit(c[3] % 10) >>

(***************************************************************************)
(* State of one CloudflareStatsTracker process and of its surroundings.    *)
(***************************************************************************)
VARIABLES
    now,           \* day number of datetime.now()
    environ,       \* TG_BOT_TOKEN's origin, HISTORY_STORAGE_DAYS, RETRY_MAX_ATTEMPTS
    history_file,  \* the file HISTORY_FILE: [state, data]
    current_data,  \* self.current_data: kind -> ordered dict name -> count
    history_data,  \* self.history_data: kind -> name -> date -> count
    thresholds,    \* self.thresholds
    alerts,        \* the list returned by the last check_thresholds
    sent,          \* Telegram sends attempted in this run: [msg, ok]
    raised,        \* exception propagating out of the current call
    pc,            \* position of the process
    runs,          \* the days on which the runs so far started
    listed,        \* fetch_stats's pages_projects / workers: kind -> names listed
    network,       \* how the next HTTP requests of an API call will end
    call           \* how the last _retry call ended: [value, requests, raised, exc]

vars == << now, environ, history_file, current_data, history_data,
           thresholds, alerts, sent, raised, pc, runs, listed, network, call >>

KindSet == {"pages", "workers"}

NameA == <<97>>       \* "a"
NameB == <<98>>       \* "b"
Names == {NameA, NameB}

EmptyHistory == [pages |-> <<>>, workers |-> <<>>]

EmptyCurrent == [pages |-> <<>>, workers |-> <<>>]

NoException == "none"

\* Keys of an ordered dict (a sequence of <<key, value>>).
Keys(d) == {d[i][1] : i \in 1..Len(d)}

\* d[k] of an ordered dict that has k.
Lookup(d, k) == d[CHOOSE i \in 1..Len(d) : d[i][1] = k][2]

\* d[k] = v on an ordered dict: a new key goes last, an old one keeps its place.
PutItem(d, k, v) ==
    IF k \in Keys(d)
    THEN [i \in 1..Len(d) |-> IF d[i][1] = k THEN <<k, v>> ELSE d[i]]
    ELSE Append(d, <<k, v>>)

\* Mutant of Today: the writer's date key is one day off the reader's.
TodayOffByOne(day) == Strftime(day + 1)

\* today = datetime.now().strftime("%Y-%m-%d")
Today(day) == Strftime(day)

(***************************************************************************)
(* _load_history                                                           *)
(***************************************************************************)
\* Mutant of LoadHistory: whatever is in the file is returned.
LoadHistoryUnguarded(file) == file.data

\* json.load of the file if it exists; the empty structure if it does not
\* exist or cannot be read.
LoadHistory(file) ==
    IF file.state = "valid" THEN file.data ELSE EmptyHistory

(***************************************************************************)
(* update_history and _save_history                                        *)
(***************************************************************************)
\* history[kind][name][today] = requests for the items of current (254-262).
RecordKind(hist, cur, today) ==
    [name \in DOMAIN hist \cup Keys(cur) |->
        IF name \in Keys(cur)
        THEN LET old == IF name \in DOMAIN hist THEN hist[name] ELSE <<>> IN
             [d \in DOMAIN old \cup {today} |->
                 IF d = today THEN Lookup(cur, name) ELSE old[d]]
        ELSE hist[name]]

\* cutoff_date = (datetime.now() - timedelta(days=storage_days)).strftime(...)
CutoffDate(day, storage_days) == Strftime(day - storage_days)

\* Mutant of KeepDate: the cutoff date itself is dropped.
KeepDateStrict(date, cutoff) == StrGE(date, cutoff) /\ date # cutoff

\* date >= cutoff_date, on str  (line 268/273)
KeepDate(date, cutoff) == StrGE(date, cutoff)

\* Mutant of PruneKind: a resource left without dates stays in the history.
PruneKindKeepEmpty(hist, cutoff) ==
    LET kept(name) == {d \in DOMAIN hist[name] : KeepDate(d, cutoff)}
    IN  [name \in DOMAIN hist |-> [d \in kept(name) |-> hist[name][d]]]

\* The pruning loop of line 267/272: old dates go, then empty resources.
PruneKind(hist, cutoff) ==
    LET kept(name) == {d \in DOMAIN hist[name] : KeepDate(d, cutoff)}
        names      == {name \in DOMAIN hist : kept(name) # {}}
    IN  [name \in names |-> [d \in kept(name) |-> hist[name][d]]]

\* Does self.history_data have both kinds?  (a history file holding other
\* JSON, such as {}, loads without them)
WellFormed(hist) == DOMAIN hist = KindSet

\* update_history up to the save: the new history_data, or the KeyError.
\* Mutant of UpdateHistory: the Pages snapshot is recorded under both kinds.
UpdateHistoryMixed(cur, hist, day, storage_days) ==
    IF ~WellFormed(hist)
    THEN [history |-> hist, raised |-> "KeyError"]
    ELSE [history |->
            [pages   |-> PruneKind(RecordKind(hist.pages, cur.pages, Today(day)),
                                   CutoffDate(day, storage_days)),
             workers |-> PruneKind(RecordKind(RecordKind(hist.workers, cur.pages, Today(day)),
                                              cur.workers, Today(day)),
                                   CutoffDate(day, storage_days))],
          raised |-> NoException]

UpdateHistory(cur, hist, day, storage_days) ==
    IF ~WellFormed(hist)
    THEN [history |-> hist, raised |-> "KeyError"]
    ELSE [history |->
            [pages   |-> PruneKind(RecordKind(hist.pages, cur.pages, Today(day)),
                                   CutoffDate(day, storage_days)),
             workers |-> PruneKind(RecordKind(hist.workers, cur.workers, Today(day)),
                                   CutoffDate(day, storage_days))],
          raised |-> NoException]

\* _save_history: the file afterwards.  The write succeeds, or fails before
\* the file is opened (logged, file untouched), or fails after open(.., 'w')
\* truncated it (logged, file left incomplete).
SaveOutcomes == {"ok", "open_failed", "dump_failed"}

SaveHistory(file, hist, outcome) ==
    IF outcome = "ok" THEN [state |-> "valid", data |-> hist]
    ELSE IF outcome = "open_failed" THEN file
    ELSE [state |-> "corrupt", data |-> <<>>]

(***************************************************************************)
(* check_thresholds                                                        *)
(***************************************************************************)
\* Mutant of Yesterday: the baseline date is today's.
YesterdayIsToday(day) == Strftime(day)

\* yesterday = (datetime.now() - timedelta(days=1)).strftime("%Y-%m-%d")
Yesterday(day) == Strftime(day - 1)

ThrIncrease(thr, kind) ==
    IF kind = "pages" THEN thr.pages_request_increase
    ELSE thr.workers_request_increase

ThrDecrease(thr, kind) ==
    IF kind = "pages" THEN thr.pages_request_decrease
    ELSE thr.workers_request_decrease

\* project in history and yesterday in history[project]  (line 286/298)
HasBaseline(hist, name, yesterday) ==
    name \in DOMAIN hist /\ yesterday \in DOMAIN hist[name]

\* Mutant of BaselinePositive: a zero baseline is let through.
BaselineNonNegative(y) == y >= 0

\* yesterday_requests > 0  (line 288/300)
BaselinePositive(y) == y > 0

\* Mutant of IncreaseFires: the comparison is strict.
IncreaseFiresStrict(cp, thr) == FCmp(cp, thr) > 0

\* change_percent >= threshold  (line 290/302)
IncreaseFires(cp, thr) == FCmp(cp, thr) >= 0

\* Mutant of DecreaseFires: the threshold is not negated.
DecreaseFiresUnnegated(cp, thr) == FCmp(cp, thr) <= 0

\* change_percent <= -threshold  (line 293/305)
DecreaseFires(cp, thr) == FCmp(cp, 0 - thr) <= 0

Alert(dir, kind, name, y, requests) ==
    [dir |-> dir, kind |-> kind, name |-> name, yesterday |-> y, today |-> requests]

\* Does the iteration of the loop of line 285/297 for this item reach the
\* division of line 289/301?
Evaluated(name, hist, yesterday) ==
    HasBaseline(hist, name, yesterday) /\ BaselinePositive(hist[name][yesterday])

\* Does the division of line 289/301 raise for this item?
ItemRaises(name, hist, yesterday) ==
    Evaluated(name, hist, yesterday) /\ hist[name][yesterday] = 0

\* Does the iteration for this item append the alert of this direction?
ItemFires(dir, kind, name, requests, hist, yesterday, thr) ==
    /\ Evaluated(name, hist, yesterday)
    /\ hist[name][yesterday] # 0
    /\ IF dir = "increase"
       THEN IncreaseFires(ChangePercent(requests, hist[name][yesterday]),
                          ThrIncrease(thr, kind))
       ELSE DecreaseFires(ChangePercent(requests, hist[name][yesterday]),
                          ThrDecrease(thr, kind))

\* The two appends an iteration can make, in program order (increase at
\* line 291/303, then decrease at line 294/306), for every item of
\* current_data[kind].items() in its order.
Appends(kind, cur, hist, yesterday, thr) ==
    [j \in 1..(2 * Len(cur)) |->
        LET item == cur[(j + 1) \div 2]
            dir  == IF j % 2 = 1 THEN "increase" ELSE "decrease"
            has  == HasBaseline(hist, item[1], yesterday)
        IN  [alert |-> Alert(dir, kind, item[1],
                             IF has THEN hist[item[1]][yesterday] ELSE 0, item[2]),
             fires |-> ItemFires(dir, kind, item[1], item[2], hist, yesterday, thr)]]

Fired(c) == c.fires

\* The loop of line 285/297 over current_data[kind].items(): the alerts it
\* appends, or the exception it raises.
KindAlerts(kind, cur, hist, yesterday, thr) ==
    IF \E i \in 1..Len(cur) : ItemRaises(cur[i][1], hist, yesterday)
    THEN [alerts |-> <<>>, raised |-> "ZeroDivisionError"]
    ELSE [alerts |-> [k \in 1..Len(SelectSeq(Appends(kind, cur, hist, yesterday, thr), Fired)) |->
                        SelectSeq(Appends(kind, cur, hist, yesterday, thr), Fired)[k].alert],
          raised |-> NoException]

\* check_thresholds: the returned list, or the exception raised.
\* Mutant of JoinAlerts: the Workers alerts come first.
JoinAlertsWorkersFirst(pages_alerts, workers_alerts) == workers_alerts \o pages_alerts

\* Both loops append to the one list alerts: Pages loop first (285-307).
JoinAlerts(pages_alerts, workers_alerts) == pages_alerts \o workers_alerts

CheckThresholds(cur, hist, thr, day) ==
    IF ~WellFormed(hist) /\ (cur.pages # <<>> \/ cur.workers # <<>>)
    THEN [alerts |-> <<>>, raised |-> "KeyError"]
    ELSE IF ~WellFormed(hist)
    THEN [alerts |-> <<>>, raised |-> NoException]
    ELSE
    LET p == KindAlerts("pages", cur.pages, hist.pages, Yesterday(day), thr) IN
    IF p.raised # NoException THEN [alerts |-> <<>>, raised |-> p.raised]
    ELSE LET w == KindAlerts("workers", cur.workers, hist.workers,
                             Yesterday(day), thr) IN
         IF w.raised # NoException THEN [alerts |-> <<>>, raised |-> w.raised]
         ELSE [alerts |-> JoinAlerts(p.alerts, w.alerts), raised |-> NoException]

(***************************************************************************)
(* Specification SpecThr: check_thresholds on a tracker built as the tests *)
(* build it: the constructor loads the history file, current_data is set,  *)
(* check_thresholds is called.                                             *)
(***************************************************************************)
\* The day of the runs of SpecThr and SpecHist (2024-01-01).
BaseDay == 19723

\* Request counts of the current snapshot.
CurCounts == {70, 100, 129, 130}

\* Request counts stored for yesterday.
HistCounts == {0, 100}

\* The values a threshold takes (int(os.getenv(...)), line 195).
ThrValues == {0, 29, 30}

\* Default thresholds of line 195.
DefaultPagesThreshold == 30
DefaultWorkersThreshold == 35

\* Ordered dicts over the names with values in counts.
OrderedDicts(names, counts) ==
    {d \in UNION {[1..n -> names \X counts] : n \in 0..Cardinality(names)} :
        \A i, j \in 1..Len(d) : i # j => d[i][1] # d[j][1]}

\* date -> count maps with one entry: for yesterday, or for today (of 100).
DateMaps(day) ==
    {[d \in {Strftime(day - 1)} |-> c] : c \in HistCounts}
        \cup {[d \in {Strftime(day)} |-> 100]}

KindHistories(day) == UNION {[S -> DateMaps(day)] : S \in SUBSET Names}

\* The few values of the kind that is not under study.
FewCurrent == {<<>>, <<<<NameA, 130>>>>}
FewHistories(day) ==
    {<<>>, [n \in {NameA} |-> [d \in {Strftime(day - 1)} |-> 100]]}

Other(kind) == IF kind = "pages" THEN "workers" ELSE "pages"

ThresholdSets(focus) ==
    {thr \in [pages_request_increase : ThrValues \cup {DefaultPagesThreshold},
              pages_request_decrease : ThrValues \cup {DefaultPagesThreshold},
              workers_request_increase : ThrValues \cup {DefaultWorkersThreshold},
              workers_request_decrease : ThrValues \cup {DefaultWorkersThreshold}] :
        /\ ThrIncrease(thr, focus) \in ThrValues
        /\ ThrDecrease(thr, focus) \in ThrValues
        /\ focus = "workers" =>
              /\ thr.pages_request_increase = DefaultPagesThreshold
              /\ thr.pages_request_decrease = DefaultPagesThreshold
        /\ focus = "pages" =>
              /\ thr.workers_request_increase = DefaultWorkersThreshold
              /\ thr.workers_request_decrease = DefaultWorkersThreshold}

FileValid(data) == [state |-> "valid", data |-> data]
FileAbsent == [state |-> "absent", data |-> <<>>]
FileCorrupt == [state |-> "corrupt", data |-> <<>>]

\* HISTORY_STORAGE_DAYS when unset (line 264).
DefaultStorageDays == 30

\* RETRY_MAX_ATTEMPTS when unset (line 201).
DefaultMaxAttempts == 3

DefaultEnviron ==
    [token |-> "env", storage_days |-> DefaultStorageDays,
     max_attempts |-> DefaultMaxAttempts]

\* No HTTP request is scripted and no _retry call has returned.
NoNetwork == <<>>
NoCall == [value |-> 0, requests |-> 0, raised |-> "none", exc |-> 0]

\* Nothing has been listed yet.
NoListing == [pages |-> <<>>, workers |-> <<>>]

InitThr ==
    /\ listed = NoListing
    /\ network = NoNetwork
    /\ call = NoCall
    /\ now = BaseDay
    /\ environ = DefaultEnviron
    /\ \E focus \in KindSet :
          /\ thresholds \in ThresholdSets(focus)
          /\ \/ history_file \in {FileAbsent, FileCorrupt}
             \/ \E h \in [KindSet -> KindHistories(now) \cup FewHistories(now)] :
                   /\ h[focus] \in KindHistories(now)
                   /\ h[Other(focus)] \in FewHistories(now)
                   /\ history_file = FileValid([pages |-> h["pages"], workers |-> h["workers"]])
    /\ current_data = EmptyCurrent
    /\ history_data = EmptyHistory
    /\ alerts = <<>>
    /\ sent = <<>>
    /\ raised = NoException
    /\ pc = "new"
    /\ runs = <<>>

\* CloudflareStatsTracker(...), then the test sets current_data.
ThrConstruct ==
    /\ pc = "new"
    /\ history_data' = LoadHistory(history_file)
    /\ \E focus \in KindSet, c \in OrderedDicts(Names, CurCounts), o \in FewCurrent :
          /\ thresholds \in ThresholdSets(focus)
          /\ current_data' = IF focus = "pages" THEN [pages |-> c, workers |-> o]
                             ELSE [pages |-> o, workers |-> c]
    /\ pc' = "ready"
    /\ UNCHANGED << listed, network, call, now, environ, history_file, thresholds, alerts, sent, raised, runs >>

\* alerts = tracker.check_thresholds()
ThrCall ==
    /\ pc = "ready"
    /\ LET r == CheckThresholds(current_data, history_data, thresholds, now) IN
          /\ alerts' = r.alerts
          /\ raised' = r.raised
    /\ pc' = "returned"
    /\ UNCHANGED << listed, network, call, now, environ, history_file, current_data, history_data,
                    thresholds, sent, runs >>

NextThr == ThrConstruct \/ ThrCall

SpecThr == InitThr /\ [][NextThr]_vars

(***************************************************************************)
(* Specification SpecHist: update_history on a tracker built as the tests  *)
(* build it: the constructor loads the history file, current_data is set,  *)
(* update_history is called.                                               *)
(***************************************************************************)
\* The stored history reaches back this many days before the run.
HistWindow == 2

\* The count of the entries stored before the run.
StoredCount == 100

\* The count observed by the run.
ObservedCount == 130

\* HISTORY_STORAGE_DAYS = int(os.getenv(...)): any integer.
StorageDayValues == {-1, 0, 1, DefaultStorageDays}

DefaultThresholds ==
    [pages_request_increase   |-> DefaultPagesThreshold,
     pages_request_decrease   |-> DefaultPagesThreshold,
     workers_request_increase |-> DefaultWorkersThreshold,
     workers_request_decrease |-> DefaultWorkersThreshold]

WindowDates(day) == {Strftime(day - k) : k \in 0..HistWindow}

StoredMaps(day) ==
    {[d \in D |-> StoredCount] : D \in (SUBSET WindowDates(day)) \ {{}}}

StoredHistories(day) == UNION {[S -> StoredMaps(day)] : S \in SUBSET Names}

InitHist ==
    /\ listed = NoListing
    /\ network = NoNetwork
    /\ call = NoCall
    /\ now = BaseDay
    /\ \E w \in StorageDayValues : environ = [DefaultEnviron EXCEPT !.storage_days = w]
    /\ thresholds = DefaultThresholds
    /\ \/ history_file = FileAbsent
       \/ \E focus \in KindSet, h \in StoredHistories(now), o \in FewHistories(now) :
             history_file = FileValid(IF focus = "pages"
                                      THEN [pages |-> h, workers |-> o]
                                      ELSE [pages |-> o, workers |-> h])
    /\ current_data = EmptyCurrent
    /\ history_data = EmptyHistory
    /\ alerts = <<>>
    /\ sent = <<>>
    /\ raised = NoException
    /\ pc = "new"
    /\ runs = <<>>

\* CloudflareStatsTracker(...), then the test sets current_data.
HistConstruct ==
    /\ pc = "new"
    /\ history_data' = LoadHistory(history_file)
    /\ \E focus \in KindSet, c \in OrderedDicts(Names, {ObservedCount}), o \in FewCurrent :
          current_data' = IF focus = "pages" THEN [pages |-> c, workers |-> o]
                          ELSE [pages |-> o, workers |-> c]
    /\ pc' = "ready"
    /\ UNCHANGED << listed, network, call, now, environ, history_file, thresholds, alerts, sent, raised, runs >>

\* tracker.update_history()
HistUpdate ==
    /\ pc = "ready"
    /\ LET r == UpdateHistory(current_data, history_data, now, environ.storage_days) IN
          /\ history_data' = r.history
          /\ raised' = r.raised
          /\ \E outcome \in SaveOutcomes :
                history_file' = SaveHistory(history_file, r.history, outcome)
    /\ pc' = "updated"
    /\ UNCHANGED << listed, network, call, now, environ, current_data, thresholds, alerts, sent, runs >>

NextHist == HistConstruct \/ HistUpdate

SpecHist == InitHist /\ [][NextHist]_vars

(***************************************************************************)
(* Specification Spec: main(), run after run.  Each run is a new process:  *)
(* only the history file, the clock and the environment outlive it.        *)
(***************************************************************************)
\* Number of runs of main() followed.
MaxRuns == 2

\* Counts the metrics API reports.
PageCounts == {100, 130}
WorkerCounts == {100}

\* fetch_*_metrics returned {} or a result without "requests".
Unavailable == -1

ResourceNames(kind) == IF kind = "pages" THEN {NameA, NameB} ELSE {NameA}

ResourceCounts(kind) == IF kind = "pages" THEN PageCounts ELSE WorkerCounts

\* Page a is the resource whose count changes from run to run; the other
\* resources report the steady count.
CountsOf(kind, name) ==
    IF kind = "pages" /\ name = NameA THEN PageCounts ELSE WorkerCounts

\* What the metrics calls of a run answer, per resource of a kind.
MetricsOf(kind) ==
    {m \in [ResourceNames(kind) -> ResourceCounts(kind) \cup {Unavailable}] :
        \A name \in ResourceNames(kind) :
            m[name] \in CountsOf(kind, name) \cup {Unavailable}}

\* Exceptions that escape to main().
ExcMalformedProject == "fetch_stats: KeyError('name')"
ExcMalformedWorker  == "fetch_stats: AttributeError('get')"
ExcHistoryKey       == "update_history: KeyError('pages')"
ExcChart            == "generate_charts: savefig failed"

\* Sequences of distinct names: what fetch_pages_projects / fetch_workers
\* return ([] when the call failed, line 38-40 / 48-50).
Listings(names) ==
    {s \in UNION {[1..n -> names] : n \in 0..Cardinality(names)} :
        \A i, j \in 1..Len(s) : i # j => s[i] # s[j]}

Measured(metrics, name) == metrics[name] # Unavailable

\* Mutant of FetchKind: a resource whose metrics are unavailable counts 0.
FetchKindZero(listing, metrics) ==
    [k \in 1..Len(listing) |->
        << listing[k], IF Measured(metrics, listing[k]) THEN metrics[listing[k]] ELSE 0 >>]

\* The loop of line 227-231 / 234-246 on a listing of well-formed items:
\* a resource whose metrics are unavailable is left out.
FetchKind(listing, metrics) ==
    [k \in 1..Len(SelectSeq(listing, LAMBDA n : Measured(metrics, n))) |->
        << SelectSeq(listing, LAMBDA n : Measured(metrics, n))[k],
           metrics[SelectSeq(listing, LAMBDA n : Measured(metrics, n))[k]] >>]

\* generate_charts: a chart per kind whose history is not empty (317, 336).
GenerateCharts(hist) ==
    (IF hist.pages # <<>> THEN <<"pages_trend.png">> ELSE <<>>)
        \o (IF hist.workers # <<>> THEN <<"workers_trend.png">> ELSE <<>>)

Attempt(msg, ok) == [msg |-> msg, ok |-> ok]

\* Mutant of ReportSends: when there are alerts, the alert message is sent
\* in place of the report text.
ReportSendsAlertInstead(report_ok, alert_list, charts, alert_ok, photo_ok) ==
    IF alert_list # <<>>
    THEN <<Attempt("alert", alert_ok)>>
            \o [i \in 1..Len(charts) |-> Attempt(charts[i], photo_ok[charts[i]])]
    ELSE IF ~report_ok THEN <<Attempt("report", FALSE)>>
    ELSE <<Attempt("report", TRUE)>>
            \o [i \in 1..Len(charts) |-> Attempt(charts[i], photo_ok[charts[i]])]

\* Mutant of ReportSends: the chart images are sent before the texts.
ReportSendsChartsFirst(report_ok, alert_list, charts, alert_ok, photo_ok) ==
    IF ~report_ok THEN <<Attempt("report", FALSE)>>
    ELSE [i \in 1..Len(charts) |-> Attempt(charts[i], photo_ok[charts[i]])]
            \o <<Attempt("report", TRUE)>>
            \o (IF alert_list # <<>> THEN <<Attempt("alert", alert_ok)>> ELSE <<>>)

\* Mutant of ReportSends: the first failed send ends send_report.
ReportSendsAllOrNothing(report_ok, alert_list, charts, alert_ok, photo_ok) ==
    LET all == <<Attempt("report", report_ok)>>
                 \o (IF alert_list # <<>> THEN <<Attempt("alert", alert_ok)>> ELSE <<>>)
                 \o [i \in 1..Len(charts) |-> Attempt(charts[i], photo_ok[charts[i]])]
        bad == {i \in 1..Len(all) : ~all[i].ok}
    IN  IF bad = {} THEN all ELSE SubSeq(all, 1, Min(bad))

\* The sends of send_report (381-397), in order, given how each one ends.
ReportSends(report_ok, alert_list, charts, alert_ok, photo_ok) ==
    IF ~report_ok THEN <<Attempt("report", FALSE)>>
    ELSE <<Attempt("report", TRUE)>>
            \o (IF alert_list # <<>> THEN <<Attempt("alert", alert_ok)>> ELSE <<>>)
            \o [i \in 1..Len(charts) |-> Attempt(charts[i], photo_ok[charts[i]])]

ChartPaths == {"pages_trend.png", "workers_trend.png"}

\* The foreign history file: valid JSON without the two kinds, such as {}.
FileForeign == [state |-> "valid", data |-> <<>>]

Init ==
    /\ listed = NoListing
    /\ network = NoNetwork
    /\ call = NoCall
    /\ now = BaseDay
    /\ environ \in [token : {"env", "config"}, storage_days : {0, 1},
                    max_attempts : {DefaultMaxAttempts}]
    /\ thresholds = DefaultThresholds
    /\ history_file \in {FileAbsent, FileForeign}
    /\ current_data = EmptyCurrent
    /\ history_data = EmptyHistory
    /\ alerts = <<>>
    /\ sent = <<>>
    /\ raised = NoException
    /\ pc = "idle"
    /\ runs = <<>>

\* tracker = CloudflareStatsTracker()   (line 401, 128-149)
Start ==
    /\ pc = "idle"
    /\ runs' = Append(runs, now)
    /\ current_data' = EmptyCurrent
    /\ history_data' = LoadHistory(history_file)
    /\ pc' = "constructed"
    /\ UNCHANGED << listed, network, call, now, environ, history_file, thresholds, alerts, sent, raised >>

\* tracker.fetch_stats()   (line 402, 219-248)
FetchStats ==
    /\ pc = "constructed"
    /\ \E pl \in Listings(ResourceNames("pages")),
          pm \in MetricsOf("pages"),
          wl \in Listings(ResourceNames("workers")),
          wm \in MetricsOf("workers"),
          bad \in {"none", "project", "worker"} :
          \/ /\ bad = "none"
             /\ current_data' = [pages |-> FetchKind(pl, pm), workers |-> FetchKind(wl, wm)]
             /\ listed' = [pages |-> pl, workers |-> wl]
             /\ pc' = "fetched"
             /\ raised' = raised
          \/ /\ bad = "project"        \* an item without "name" ends the listing
             /\ current_data' = [pages |-> FetchKind(pl, pm), workers |-> <<>>]
             /\ listed' = [pages |-> pl, workers |-> <<>>]
             /\ pc' = "except"
             /\ raised' = ExcMalformedProject
          \/ /\ bad = "worker"         \* an item that is no dict ends the listing
             /\ current_data' = [pages |-> FetchKind(pl, pm), workers |-> FetchKind(wl, wm)]
             /\ listed' = [pages |-> pl, workers |-> wl]
             /\ pc' = "except"
             /\ raised' = ExcMalformedWorker
    /\ UNCHANGED << network, call, now, environ, history_file, history_data,
                    thresholds, alerts, sent, runs >>

\* tracker.update_history()   (line 403, 250-277)
UpdateHistoryStep ==
    /\ pc = "fetched"
    /\ \E r \in {UpdateHistory(current_data, history_data, now, environ.storage_days)} :
          IF r.raised # NoException
          THEN /\ raised' = ExcHistoryKey
               /\ pc' = "except"
               /\ UNCHANGED << history_data, history_file >>
          ELSE /\ history_data' = r.history
               /\ \E outcome \in SaveOutcomes :
                     history_file' = SaveHistory(history_file, r.history, outcome)
               /\ pc' = "updated"
               /\ raised' = raised
    /\ UNCHANGED << listed, network, call, now, environ, current_data, thresholds, alerts, sent, runs >>

\* Where the process can die inside _save_history (179-185): before open,
\* after open(history_file, 'w') has truncated the file, while json.dump is
\* writing, or after the document is complete.
CrashPoints == {"before_open", "truncated", "partial", "written"}

\* The file a crash at that point leaves behind.
CrashedFile(file, hist, point) ==
    IF point = "before_open" THEN file
    ELSE IF point = "written" THEN [state |-> "valid", data |-> hist]
    ELSE [state |-> "corrupt", data |-> <<>>]

\* The process is killed during the _save_history of update_history.
CrashInSave ==
    /\ pc = "fetched"
    /\ \E r \in {UpdateHistory(current_data, history_data, now, environ.storage_days)},
          point \in CrashPoints :
          /\ r.raised = NoException
          /\ history_file' = CrashedFile(history_file, r.history, point)
    /\ pc' = "crashed"
    /\ current_data' = EmptyCurrent
    /\ history_data' = EmptyHistory
    /\ listed' = NoListing
    /\ UNCHANGED << network, call, now, environ, thresholds, alerts, sent, raised, runs >>

\* tracker.send_report()   (line 404, 378-397)
SendReport ==
    /\ pc = "updated"
    /\ \E report_ok \in BOOLEAN, alert_ok \in BOOLEAN,
          photo_ok \in [ChartPaths -> BOOLEAN], chart_error \in BOOLEAN,
          r \in {CheckThresholds(current_data, history_data, thresholds, now)},
          charts \in {GenerateCharts(history_data)} :
              IF ~report_ok
              THEN /\ sent' = ReportSends(FALSE, <<>>, <<>>, alert_ok, photo_ok)
                   /\ pc' = "done"
                   /\ UNCHANGED << alerts, raised >>
              ELSE IF r.raised # NoException
              THEN /\ sent' = <<Attempt("report", TRUE)>>
                   /\ raised' = r.raised
                   /\ pc' = "except"
                   /\ UNCHANGED alerts
              ELSE IF chart_error /\ charts # <<>>
              THEN /\ sent' = ReportSends(TRUE, r.alerts, <<>>, alert_ok, photo_ok)
                   /\ alerts' = r.alerts
                   /\ raised' = ExcChart
                   /\ pc' = "except"
              ELSE /\ sent' = ReportSends(TRUE, r.alerts, charts, alert_ok, photo_ok)
                   /\ alerts' = r.alerts
                   /\ pc' = "done"
                   /\ raised' = raised
    /\ UNCHANGED << listed, network, call, now, environ, history_file, current_data, history_data,
                    thresholds, runs >>

\* The except clause of main (406-413): TelegramBot(os.getenv("TG_BOT_TOKEN"),
\* ...) raises TypeError at line 91 when the variable is not set.
HandleException ==
    /\ pc = "except"
    /\ IF environ.token = "env"
       THEN \E ok \in BOOLEAN : sent' = Append(sent, Attempt("error", ok))
       ELSE sent' = sent
    /\ pc' = "failed"
    /\ UNCHANGED << listed, network, call, now, environ, history_file, current_data, history_data,
                    thresholds, alerts, raised, runs >>

\* The scheduler starts main() again, the same day or the next.
NextRun ==
    /\ pc \in {"done", "failed", "crashed"}
    /\ Len(runs) < MaxRuns
    /\ now' \in {now, now + 1}
    /\ current_data' = EmptyCurrent
    /\ history_data' = EmptyHistory
    /\ alerts' = <<>>
    /\ sent' = <<>>
    /\ raised' = NoException
    /\ pc' = "idle"
    /\ listed' = NoListing
    /\ UNCHANGED << network, call, environ, history_file, thresholds, runs >>

Next ==
    \/ Start
    \/ FetchStats
    \/ UpdateHistoryStep
    \/ CrashInSave
    \/ SendReport
    \/ HandleException
    \/ NextRun

Spec == Init /\ [][Next]_vars

(***************************************************************************)
(* Specification SpecRetry: one _retry call of fetch_stats, with the HTTP  *)
(* requests of the wrapped CloudflareAPI method scripted in network.       *)
(***************************************************************************)
\* Longest script of HTTP outcomes, and largest RETRY_MAX_ATTEMPTS tried.
MaxRequests == 3

\* An HTTP request that raises (connection error, raise_for_status).
HttpFailure == -2

\* The payloads of the requests that succeed.
Payloads == PageCounts

\* Python's None: what _retry returns when its loop body never runs.
NoneValue == -3

ExcNotIterable == "fetch_stats: TypeError('NoneType' object is not iterable)"
ExcRetryExhausted == "_retry: last attempt raised"

\* CloudflareAPI.fetch_*: the request's payload, or [] / {} when the
\* request raised; the except clause of each method returns, so ...
ApiCall(outcome) == IF outcome = HttpFailure THEN Unavailable ELSE outcome

\* ... no call of a CloudflareAPI method raises (38-40, 48-50, 64-66, 80-82).
ApiRaises(outcome) == FALSE

\* Mutant of RetryLoop: the first call that raises ends the loop.
RetryLoopGiveUp(max_attempts, raises, results) ==
    IF max_attempts <= 0
    THEN [value |-> NoneValue, requests |-> 0, raised |-> NoException, exc |-> 0]
    ELSE IF raises[1]
    THEN [value |-> NoneValue, requests |-> 1, raised |-> ExcRetryExhausted, exc |-> 1]
    ELSE [value |-> results[1], requests |-> 1, raised |-> NoException, exc |-> 0]

\* _retry (205-217): func is called until a call does not raise, at most
\* max_attempts times; the exception of the last call is re-raised.  The
\* i-th call raises if raises[i] and returns results[i] otherwise; exc is
\* the number of the call whose exception leaves _retry.
RetryLoop(max_attempts, raises, results) ==
    IF max_attempts <= 0
    THEN [value |-> NoneValue, requests |-> 0, raised |-> NoException, exc |-> 0]
    ELSE IF \A i \in 1..max_attempts : raises[i]
    THEN [value |-> NoneValue, requests |-> max_attempts,
          raised |-> ExcRetryExhausted, exc |-> max_attempts]
    ELSE [value    |-> results[Min({i \in 1..max_attempts : ~raises[i]})],
          requests |-> Min({i \in 1..max_attempts : ~raises[i]}),
          raised   |-> NoException,
          exc      |-> 0]

\* _retry around a CloudflareAPI method.
Retry(max_attempts, script) ==
    RetryLoop(max_attempts,
              [i \in 1..Len(script) |-> ApiRaises(script[i])],
              [i \in 1..Len(script) |-> ApiCall(script[i])])

InitRetry ==
    /\ listed = NoListing
    /\ network \in [1..MaxRequests -> {HttpFailure} \cup Payloads]
    /\ call = NoCall
    /\ now = BaseDay
    /\ \E n \in 0..MaxRequests : environ = [DefaultEnviron EXCEPT !.max_attempts = n]
    /\ thresholds = DefaultThresholds
    /\ history_file = FileAbsent
    /\ current_data = EmptyCurrent
    /\ history_data = EmptyHistory
    /\ alerts = <<>>
    /\ sent = <<>>
    /\ raised = NoException
    /\ pc = "new"
    /\ runs = <<>>

\* pages_projects = self._retry(self.cf_api.fetch_pages_projects), and the
\* for statement over the result (226-227).
RetryListing ==
    /\ pc = "new"
    /\ call' = Retry(environ.max_attempts, network)
    /\ raised' = IF call'.raised # NoException THEN call'.raised
                 ELSE IF call'.value = NoneValue THEN ExcNotIterable
                 ELSE NoException
    /\ pc' = "listed"
    /\ UNCHANGED << listed, network, now, environ, history_file, current_data, history_data,
                    thresholds, alerts, sent, runs >>

\* metrics = self._retry(self.cf_api.fetch_pages_metrics, ...), and the
\* test of the result (229-231).
RetryMetrics ==
    /\ pc = "new"
    /\ call' = Retry(environ.max_attempts, network)
    /\ raised' = call'.raised
    /\ current_data' =
          IF call'.raised = NoException /\ call'.value \notin {NoneValue, Unavailable}
          THEN [current_data EXCEPT !.pages = PutItem(@, NameA, call'.value)]
          ELSE current_data
    /\ pc' = "measured"
    /\ UNCHANGED << listed, network, now, environ, history_file, history_data,
                    thresholds, alerts, sent, runs >>

\* self._retry(func) for a func that raises where the script has a failure
\* and returns the payload where it has one.
RetryRaising ==
    /\ pc = "new"
    /\ call' = RetryLoop(environ.max_attempts,
                         [i \in 1..Len(network) |-> network[i] = HttpFailure],
                         network)
    /\ raised' = call'.raised
    /\ pc' = "retried"
    /\ UNCHANGED << listed, network, now, environ, history_file, current_data,
                    history_data, thresholds, alerts, sent, runs >>

NextRetry == RetryListing \/ RetryMetrics \/ RetryRaising

SpecRetry == InitRetry /\ [][NextRetry]_vars

(***************************************************************************)
(* Properties of check_thresholds (SpecThr)                                *)
(***************************************************************************)
HasAlert(dir, kind, name) ==
    \E i \in 1..Len(alerts) :
        alerts[i].dir = dir /\ alerts[i].kind = kind /\ alerts[i].name = name

AlertCount(kind, name) ==
    Cardinality({i \in 1..Len(alerts) : alerts[i].kind = kind /\ alerts[i].name = name})

\* The stored date of yesterday, written out independently of Yesterday.
YesterdayStr == Strftime(now - 1)

\* r is in the current snapshot and has a stored count for yesterday.
Comparable(kind, name) ==
    /\ name \in Keys(current_data[kind])
    /\ name \in DOMAIN history_data[kind]
    /\ YesterdayStr \in DOMAIN history_data[kind][name]

CurOf(kind, name) == Lookup(current_data[kind], name)

YOf(kind, name) == history_data[kind][name][YesterdayStr]

C2_ZeroBaselineSkipped ==
    pc = "returned" =>
        /\ raised = NoException
        /\ \A kind \in KindSet, name \in Names :
              (Comparable(kind, name) /\ YOf(kind, name) <= 0)
                 => AlertCount(kind, name) = 0

\* Witness of C2: a resource with today's count > 0 and yesterday's count 0
\* was evaluated under thresholds of 0.
C2_Witness ==
    /\ pc = "returned"
    /\ \E kind \in KindSet, name \in Names :
          /\ Comparable(kind, name)
          /\ YOf(kind, name) = 0
          /\ CurOf(kind, name) > 0
          /\ ThrIncrease(thresholds, kind) = 0
          /\ ThrDecrease(thresholds, kind) = 0

\* C3: when both thresholds of a kind are > 0, no resource of that kind has
\* both an increase and a decrease alert: at most one alert per resource.
C3_AtMostOneAlert ==
    pc = "returned" =>
        \A kind \in KindSet :
            (ThrIncrease(thresholds, kind) > 0 /\ ThrDecrease(thresholds, kind) > 0)
               => \A name \in Names :
                     /\ ~(HasAlert("increase", kind, name) /\ HasAlert("decrease", kind, name))
                     /\ AlertCount(kind, name) <= 1

\* Witness of C3: under two positive thresholds of a kind, a resource of that
\* kind got exactly one alert.
C3_Witness ==
    /\ pc = "returned"
    /\ \E kind \in KindSet, name \in Names :
          /\ ThrIncrease(thresholds, kind) > 0
          /\ ThrDecrease(thresholds, kind) > 0
          /\ AlertCount(kind, name) = 1

\* The degenerate case C3 excludes happens: with both thresholds 0 an
\* unchanged resource gets both alerts.
C3_DegenerateReached ==
    /\ pc = "returned"
    /\ \E kind \in KindSet, name \in Names : AlertCount(kind, name) = 2

\* C4: a resource of today's snapshot without a stored count for yesterday
\* gets no alert; on a first-ever run (no history file) the loaded history
\* is {pages: {}, workers: {}} and the alert list is empty.
C4_NoBaselineNoAlert ==
    /\ pc = "returned" =>
          \A kind \in KindSet, name \in Names :
              ~Comparable(kind, name) => AlertCount(kind, name) = 0
    /\ (pc # "new" /\ history_file.state = "absent") =>
          /\ history_data = EmptyHistory
          /\ alerts = <<>>
          /\ raised = NoException

\* Witness of C4: a resource of today's snapshot is in the history with a
\* count for today only, differing from the current one, under thresholds 0.
C4_Witness ==
    /\ pc = "returned"
    /\ \E kind \in KindSet, name \in Names :
          /\ name \in Keys(current_data[kind])
          /\ name \in DOMAIN history_data[kind]
          /\ DOMAIN history_data[kind][name] = {Strftime(now)}
          /\ history_data[kind][name][Strftime(now)] # CurOf(kind, name)
          /\ ThrIncrease(thresholds, kind) = 0

\* Witness of the first-ever run of C4: no history file, both kinds observed.
C4_FirstRunReached ==
    /\ pc = "returned"
    /\ history_file.state = "absent"
    /\ current_data.pages # <<>>
    /\ current_data.workers # <<>>

(***************************************************************************)
(* Properties of update_history                                            *)
(***************************************************************************)
\* The calendar days whose date strings the model stores.
StoredDays == (now - HistWindow - 4)..(now + 4)

\* The day number a stored date string stands for.
DayOf(date) == CHOOSE k \in StoredDays : Strftime(k) = date

\* The dict view of an ordered dict.
AsMap(d) == [k \in Keys(d) |-> Lookup(d, k)]

\* C5: after update_history with retention window W on date D, no entry is
\* dated before D - W, every pre-existing entry dated D - W or later is
\* still there, and the entry just written for D is there whatever W is.
C5_PruneKeepsToday ==
    [][(pc = "ready" /\ pc' = "updated" /\ raised' = NoException) =>
        \A kind \in KindSet, name \in Names :
            /\ name \in DOMAIN history_data'[kind] =>
                  \A d \in DOMAIN history_data'[kind][name] :
                      DayOf(d) >= now - environ.storage_days
            /\ name \in DOMAIN history_data[kind] =>
                  \A d \in DOMAIN history_data[kind][name] :
                      DayOf(d) >= now - environ.storage_days =>
                          /\ name \in DOMAIN history_data'[kind]
                          /\ d \in DOMAIN history_data'[kind][name]
            /\ name \in Keys(current_data[kind]) =>
                  /\ name \in DOMAIN history_data'[kind]
                  /\ Strftime(now) \in DOMAIN history_data'[kind][name]
                  /\ history_data'[kind][name][Strftime(now)] = CurOf(kind, name)
      ]_vars

\* C7: after update_history, history_data[kind] has today's date as a key
\* and history_data[kind][today] equals current_data[kind] (date-major).
C7_DateMajor ==
    (pc = "updated" /\ raised = NoException) =>
        \A kind \in KindSet :
            /\ Strftime(now) \in DOMAIN history_data[kind]
            /\ history_data[kind][Strftime(now)] = AsMap(current_data[kind])

(***************************************************************************)
(* Properties of main() (Spec)                                             *)
(***************************************************************************)
Attempted(msg) == \E i \in 1..Len(sent) : sent[i].msg = msg

ErrorCount == Cardinality({i \in 1..Len(sent) : sent[i].msg = "error"})

\* The notifications the data of the run calls for.
DueMessages ==
    {"report"}
      \cup (IF CheckThresholds(current_data, history_data, thresholds, now).alerts # <<>>
            THEN {"alert"} ELSE {})
      \cup {GenerateCharts(history_data)[i] : i \in 1..Len(GenerateCharts(history_data))}

\* C6: when update_history has run twice on one date, what is stored for
\* that date is exactly the second snapshot: every resource of the second
\* snapshot has its count, and no other resource has a count for the date.
C6_SecondSnapshotOnly ==
    (pc = "updated" /\ Len(runs) = 2 /\ runs[1] = runs[2]) =>
        \A kind \in {k \in KindSet : current_data[k] # <<>>}, name \in Names :
            /\ name \in Keys(current_data[kind]) =>
                  /\ name \in DOMAIN history_data[kind]
                  /\ Strftime(now) \in DOMAIN history_data[kind][name]
                  /\ history_data[kind][name][Strftime(now)] = CurOf(kind, name)
            /\ name \notin Keys(current_data[kind]) =>
                  ~(/\ name \in DOMAIN history_data[kind]
                    /\ Strftime(now) \in DOMAIN history_data[kind][name])

\* C8: a run whose fetch ended with both kinds empty, and in which nothing
\* raised, ends having sent nothing: no report, no alert, no chart.
C8_EmptyShortCircuit ==
    (pc = "done" /\ current_data = EmptyCurrent) => sent = <<>>

C10_ExactlyOneErrorNotification ==
    /\ pc = "failed" => ErrorCount = 1
    /\ pc = "done" => ErrorCount = 0

\* update_history has run in this run and its save did not write the file.
SaveFailed ==
    /\ pc \in {"updated", "done", "except", "failed"}
    /\ raised \notin {ExcMalformedProject, ExcMalformedWorker, ExcHistoryKey}
    /\ history_file # FileValid(history_data)

\* C11: a history file that cannot be read makes the run start from the
\* empty two-kind history, and a run whose save failed still attempts the
\* report; its only way to the failed state is a later stage's exception.
C11_PersistenceNeverFatal ==
    /\ [][(pc = "idle" /\ history_file.state # "valid") =>
            (pc' = "constructed" /\ history_data' = EmptyHistory)]_vars
    /\ [](SaveFailed =>
            /\ pc \in {"done", "failed"} => Attempted("report")
            /\ pc \in {"except", "failed"} => raised \in {ExcChart, "ZeroDivisionError"})

\* The second run finds the file the first run left half-written, and its
\* own save fails too; the report is sent.
C11_Witness ==
    /\ pc = "done"
    /\ Len(runs) = 2
    /\ history_file.state = "corrupt"
    /\ current_data.pages # <<>>
    /\ history_data.pages # <<>>
    /\ \E i \in 1..Len(sent) : sent[i].msg = "report" /\ sent[i].ok

\* The first scripted request, among the allowed attempts, that succeeds.
FirstSuccess ==
    {i \in 1..environ.max_attempts :
        network[i] # HttpFailure /\ \A j \in 1..(i - 1) : network[j] = HttpFailure}

\* C12: with at least one attempt configured, a call whose request fails
\* is repeated until a request succeeds or the attempts are used up; the
\* call then yields the payload, or 'unavailable' after exactly
\* max_attempts requests, and nothing is raised.
C12_RetriedUntilSuccess ==
    (pc \in {"listed", "measured"} /\ environ.max_attempts >= 1) =>
        /\ raised = NoException
        /\ \A i \in FirstSuccess : call.value = network[i] /\ call.requests = i
        /\ FirstSuccess = {} =>
              (call.value = Unavailable /\ call.requests = environ.max_attempts)

\* C13: when the process dies during _save_history, the file afterwards
\* is the file as it was or the complete new series, never anything else.
C13_SaveAtomic ==
    [][pc' = "crashed" =>
          history_file' \in
              {history_file,
               FileValid(UpdateHistory(current_data, history_data, now,
                                       environ.storage_days).history)}]_vars

\* The position of a resource in the iteration order of a snapshot.
Position(d, name) == CHOOSE i \in 1..Len(d) : d[i][1] = name

\* C14: in the list check_thresholds returns, no Workers alert precedes a
\* Pages alert, and two alerts of one kind are in the order in which the
\* current snapshot of that kind iterates over their resources.
C14_AlertsGroupedByKind ==
    (pc = "returned" /\ raised = NoException) =>
        \A i, j \in 1..Len(alerts) :
            i < j =>
                /\ alerts[i].kind = "workers" => alerts[j].kind = "workers"
                /\ alerts[i].kind = alerts[j].kind =>
                      Position(current_data[alerts[i].kind], alerts[i].name)
                          <= Position(current_data[alerts[j].kind], alerts[j].name)

\* A Pages alert, then two Workers alerts in snapshot order (b before a).
C14_Witness ==
    /\ pc = "returned"
    /\ Len(alerts) = 3
    /\ Keys(current_data.workers) = {NameA, NameB}
    /\ current_data.workers[1][1] = NameB
    /\ alerts[1].kind = "pages"
    /\ alerts[2].kind = "workers" /\ alerts[2].name = NameB
    /\ alerts[3].kind = "workers" /\ alerts[3].name = NameA

\* C15: the alerts of a run are those of an evaluation against the history
\* as it was loaded: recording today's snapshot and pruning change nothing
\* in what check_thresholds finds, and the alerts the run produces are the
\* ones found.
C15_EvaluatedOnLoadedHistory ==
    [][/\ (pc = "fetched" /\ pc' = "updated") =>
              CheckThresholds(current_data, history_data', thresholds, now).alerts
                  = CheckThresholds(current_data, history_data, thresholds, now).alerts
       /\ (pc = "updated" /\ pc' = "done" /\ sent'[1].ok) =>
              alerts' = CheckThresholds(current_data, history_data, thresholds, now).alerts
      ]_vars

ReportCount == Cardinality({i \in 1..Len(sent) : sent[i].msg = "report"})

Rank(msg) ==
    CASE msg = "report" -> 1
      [] msg = "alert" -> 2
      [] msg = "pages_trend.png" -> 3
      [] msg = "workers_trend.png" -> 4
      [] OTHER -> 5

\* C17: whatever has been sent in a run is in the order report text, alert
\* message, Pages chart, Workers chart, each at most once and the report
\* text first; an alert message is attempted exactly when the report text
\* was delivered and the alert list is not empty.
C17_FixedSendOrder ==
    /\ \A i, j \in 1..Len(sent) : i < j => Rank(sent[i].msg) < Rank(sent[j].msg)
    /\ (sent # <<>> /\ Rank(sent[1].msg) < 5) => sent[1].msg = "report"
    /\ Attempted("alert") => (sent[1].ok /\ alerts # <<>>)
    /\ (pc = "done" /\ sent[1].ok /\ alerts # <<>>) => Attempted("alert")

\* All four notifications of a run, delivered in order.
C17_Witness ==
    /\ pc = "done"
    /\ Len(sent) = 4
    /\ \A i \in 1..4 : sent[i].ok /\ Rank(sent[i].msg) = i

\* The resources listed in this run whose count could not be fetched.
Unfetched(kind) ==
    {listed[kind][i] : i \in 1..Len(listed[kind])} \ Keys(current_data[kind])

\* C18: a listed resource whose count could not be fetched is not in the
\* current snapshot, whose counts are all counts the API reported (none is
\* a 0 standing for "no answer"); update_history leaves its history as it was, writing
\* nothing for today; no alert is about it; and the resources that were
\* fetched are recorded under today's date and the report is attempted.
C18_UnfetchedIsAbsent ==
    /\ [][(pc = "fetched" /\ pc' = "updated") =>
            \A kind \in KindSet :
                /\ \A name \in Unfetched(kind) :
                      /\ name \in DOMAIN history_data'[kind] =>
                            /\ name \in DOMAIN history_data[kind]
                            /\ \A d \in DOMAIN history_data'[kind][name] :
                                  /\ d \in DOMAIN history_data[kind][name]
                                  /\ history_data'[kind][name][d] = history_data[kind][name][d]
                /\ \A name \in Keys(current_data[kind]) :
                      /\ name \in DOMAIN history_data'[kind]
                      /\ Strftime(now) \in DOMAIN history_data'[kind][name]
                      /\ history_data'[kind][name][Strftime(now)] = CurOf(kind, name)
          ]_vars
    /\ [](\A kind \in KindSet : \A i \in 1..Len(current_data[kind]) :
            current_data[kind][i][2] \in ResourceCounts(kind))
    /\ [](\A kind \in KindSet : \A name \in Unfetched(kind) :
            /\ name \notin Keys(current_data[kind])
            /\ \A i \in 1..Len(alerts) :
                  ~(alerts[i].kind = kind /\ alerts[i].name = name))
    /\ []((pc = "done" /\ \E kind \in KindSet : Unfetched(kind) # {}) => Attempted("report"))

\* Page b could not be fetched although it has a count for yesterday; page
\* a was fetched, recorded and raised an alert; the report was sent.
C18_Witness ==
    /\ pc = "done"
    /\ Unfetched("pages") = {NameB}
    /\ NameB \in DOMAIN history_data.pages
    /\ YesterdayStr \in DOMAIN history_data.pages[NameB]
    /\ Strftime(now) \notin DOMAIN history_data.pages[NameB]
    /\ NameA \in Keys(current_data.pages)
    /\ \E i \in 1..Len(alerts) : alerts[i].name = NameA
    /\ \E i \in 1..Len(sent) : sent[i].msg = "report" /\ sent[i].ok

ChartOf(kind) == IF kind = "pages" THEN "pages_trend.png" ELSE "workers_trend.png"

\* C19: a chart of a kind is sent only if some resource of that kind has
\* counts for at least two dates in the history.
C19_ChartNeedsTwoDates ==
    \A kind \in KindSet :
        Attempted(ChartOf(kind)) =>
            \E name \in DOMAIN history_data[kind] :
                Cardinality(DOMAIN history_data[kind][name]) >= 2

\* C20: what update_history stores under a kind comes from that kind's
\* snapshot or was in that kind's history before, and every alert of a
\* kind is about a resource of that kind's snapshot, with that kind's
\* count of yesterday and that kind's threshold, also when the other kind
\* has a resource of the same name.
C20_KindsNotMixed ==
    /\ [][(pc = "fetched" /\ pc' = "updated") =>
            \A kind \in KindSet : \A name \in DOMAIN history_data'[kind] :
                \A d \in DOMAIN history_data'[kind][name] :
                    \/ /\ d = Strftime(now)
                       /\ name \in Keys(current_data[kind])
                       /\ history_data'[kind][name][d] = CurOf(kind, name)
                    \/ /\ name \in DOMAIN history_data[kind]
                       /\ d \in DOMAIN history_data[kind][name]
                       /\ history_data'[kind][name][d] = history_data[kind][name][d]
          ]_vars
    /\ [](\A i \in 1..Len(alerts) :
            LET k == alerts[i].kind
                n == alerts[i].name
            IN  /\ Comparable(k, n)
                /\ alerts[i].today = CurOf(k, n)
                /\ alerts[i].yesterday = YOf(k, n)
                /\ alerts[i].dir = "increase" =>
                      FCmp(ChangePercent(CurOf(k, n), YOf(k, n)), ThrIncrease(thresholds, k)) >= 0
                /\ alerts[i].dir = "decrease" =>
                      FCmp(ChangePercent(CurOf(k, n), YOf(k, n)),
                           0 - ThrDecrease(thresholds, k)) <= 0)

\* A Pages project and a Workers service are both named a; only the Pages
\* project changed by the threshold and only it has an alert, and the two
\* histories of the name differ.
C20_Witness ==
    /\ pc = "done"
    /\ NameA \in Keys(current_data.pages)
    /\ NameA \in Keys(current_data.workers)
    /\ CurOf("pages", NameA) # CurOf("workers", NameA)
    /\ \E i \in 1..Len(alerts) : alerts[i].kind = "pages" /\ alerts[i].name = NameA
    /\ \A i \in 1..Len(alerts) : alerts[i].kind # "workers"
    /\ NameA \in DOMAIN history_data.workers
    /\ history_data.pages[NameA] # history_data.workers[NameA]

\* C21: with a retention window of at least one day, (1) a successful save
\* puts the count recorded for each fetched resource into the file under
\* the run's date, (2) the next run loads the file as it is, (3) its
\* update_history keeps the entries of the day before, and (4) when
\* check_thresholds has run, the count stored under the day before is the
\* baseline: a resource observed on both days has an increase (decrease)
\* alert exactly when its change from that count reaches the threshold, and
\* the alert quotes that count.
C21_WriterReaderAgree ==
    /\ [][(pc = "fetched" /\ pc' = "updated" /\ history_file' = FileValid(history_data')) =>
            \A kind \in KindSet : \A name \in Keys(current_data[kind]) :
                /\ name \in DOMAIN history_file'.data[kind]
                /\ Strftime(now) \in DOMAIN history_file'.data[kind][name]
                /\ history_file'.data[kind][name][Strftime(now)] = CurOf(kind, name)]_vars
    /\ [][(pc = "idle" /\ pc' = "constructed" /\ history_file.state = "valid") =>
            history_data' = history_file.data]_vars
    /\ [][(pc = "fetched" /\ pc' = "updated" /\ environ.storage_days >= 1) =>
            \A kind \in KindSet : \A name \in DOMAIN history_data[kind] :
                YesterdayStr \in DOMAIN history_data[kind][name] =>
                    /\ name \in DOMAIN history_data'[kind]
                    /\ YesterdayStr \in DOMAIN history_data'[kind][name]
                    /\ history_data'[kind][name][YesterdayStr]
                          = history_data[kind][name][YesterdayStr]]_vars
    /\ []((pc = "done" /\ sent[1].ok) =>
            \A kind \in KindSet : \A name \in Names :
                (Comparable(kind, name) /\ YOf(kind, name) > 0) =>
                    /\ HasAlert("increase", kind, name)
                          <=> FCmp(ChangePercent(CurOf(kind, name), YOf(kind, name)),
                                   ThrIncrease(thresholds, kind)) >= 0
                    /\ HasAlert("decrease", kind, name)
                          <=> FCmp(ChangePercent(CurOf(kind, name), YOf(kind, name)),
                                   0 - ThrDecrease(thresholds, kind)) <= 0
                    /\ \A i \in 1..Len(alerts) :
                          (alerts[i].kind = kind /\ alerts[i].name = name) =>
                              alerts[i].yesterday = YOf(kind, name))

\* Second of two consecutive daily runs with a window of one day: page a,
\* recorded at 100 the day before, is observed at 130 and raises an
\* increase alert quoting 100.
C21_Witness ==
    /\ pc = "done"
    /\ Len(runs) = 2 /\ runs[2] = runs[1] + 1
    /\ environ.storage_days = 1
    /\ Comparable("pages", NameA)
    /\ YOf("pages", NameA) = 100
    /\ CurOf("pages", NameA) = 130
    /\ \E i \in 1..Len(alerts) :
          /\ alerts[i].dir = "increase" /\ alerts[i].kind = "pages"
          /\ alerts[i].name = NameA /\ alerts[i].yesterday = 100

\* C22: once update_history has run on date D with window W >= 0, every
\* resource in the history has at least 1 and at most W + 1 dated counts,
\* each dated from D - W to D; so a resource left without a dated count
\* is no longer in the history.
C22_WindowBounds ==
    (pc \in {"updated", "done"} /\ environ.storage_days >= 0) =>
        LET window == {Strftime(k) : k \in (now - environ.storage_days)..now} IN
        \A kind \in KindSet : \A name \in DOMAIN history_data[kind] :
            /\ Cardinality(DOMAIN history_data[kind][name]) >= 1
            /\ Cardinality(DOMAIN history_data[kind][name]) <= environ.storage_days + 1
            /\ DOMAIN history_data[kind][name] \subseteq window

\* With a window of 0 days, the second run, a day after the first, fetched
\* page a only: the saved history holds page a with today's count alone,
\* and nothing of page b or of the day before.
C22_Witness ==
    /\ pc = "updated"
    /\ environ.storage_days = 0
    /\ Len(runs) = 2 /\ runs[2] = runs[1] + 1
    /\ Unfetched("pages") = {NameB}
    /\ DOMAIN history_data.pages = {NameA}
    /\ DOMAIN history_data.pages[NameA] = {Strftime(now)}
    /\ history_file.state = "valid"
    /\ history_file.data = history_data

\* C23: for max_attempts >= 1, _retry around a call that can raise makes
\* between 1 and max_attempts calls; it stops at the first call that does
\* not raise and returns that call's result; when every call raises it
\* makes max_attempts calls and the exception of the last one leaves it.
C23_RetryBounded ==
    (pc = "retried" /\ environ.max_attempts >= 1) =>
        /\ call.requests >= 1
        /\ call.requests <= environ.max_attempts
        /\ \A i \in FirstSuccess :
              /\ call.requests = i
              /\ call.value = network[i]
              /\ call.raised = NoException /\ raised = NoException
        /\ FirstSuccess = {} =>
              /\ call.requests = environ.max_attempts
              /\ call.raised # NoException /\ raised = call.raised
              /\ call.exc = environ.max_attempts

\* Two attempts allowed, the first call raises and the second returns 130:
\* _retry made two calls and returned 130.
C23_Witness ==
    /\ pc = "retried"
    /\ environ.max_attempts = 2
    /\ network[1] = HttpFailure
    /\ network[2] = 130
    /\ call.requests = 2
    /\ call.value = 130
    /\ raised = NoException

\* Every allowed call raised and the last exception left _retry.
C23_ExhaustedReached ==
    /\ pc = "retried"
    /\ environ.max_attempts = 2
    /\ network[1] = HttpFailure /\ network[2] = HttpFailure
    /\ call.requests = 2
    /\ call.exc = 2
    /\ raised = ExcRetryExhausted

====
